---- MODULE Spec2Model ----
(***************************************************************************)
(* EventScheduler (src/src/eventhandler.ts): an in-process scheduler of    *)
(* delayed callbacks with pause/resume, forced execution, auto-repeat and  *)
(* JSON save/load.                                                         *)
(*                                                                         *)
(* Event objects are heap records with identity: the event table, the      *)
(* pending timers' closures and the handler invocations in flight all hold *)
(* references to them, and a reference may outlive the table entry.        *)
(* JavaScript runs every synchronous stretch of code to completion, so one *)
(* action is one such stretch: a public call up to its first real          *)
(* suspension, a timer callback, or the continuation of runEvent after the *)
(* handler's promise settles.                                              *)
(***************************************************************************)
EXTENDS Integers, Sequences, FiniteSets, TLC

\* ---------------------------------------------------------------- bounds
MaxTime == 3
MaxObj == 3
MaxIds == 1

\* ---------------------------------------------------------------- inputs
\* the ids the client uses
IdPool == <<"e1", "e2", "e3">>
Ids == {IdPool[i] : i \in 1..MaxIds}
Names == {"ping"}
Types == {"ping", "pong"}

\* the (lookupName, params, duration, autoRepeat) argument tuples the client
\* passes to addEvent
Templates ==
  { [lookupName |-> "ping", params |-> "p", duration |-> 3, autoRepeat |-> FALSE],
    [lookupName |-> "ping", params |-> "q", duration |-> 1, autoRepeat |-> TRUE],
    [lookupName |-> "pong", params |-> "p", duration |-> 1, autoRepeat |-> FALSE] }

\* strings written by saveEvents() in an earlier process, by file name
Persisted ==
  [ empty |-> << >>,
    disk |-> << [id |-> "e1", lookupName |-> "ping", params |-> "p",
                 status |-> "scheduled", addedAtTime |-> 0, remainingTime |-> 2,
                 duration |-> 2, autoRepeat |-> FALSE] >> ]

Obj == 1..MaxObj

VARIABLES
  status,        \* EventScheduler.status
  callbackMap,   \* the lookup names that have a handler registered
  eventMap,      \* id -> reference of the event object stored under it
  keys,          \* iteration (insertion) order of eventMap
  heap,          \* reference -> Event object (the reachable ones)
  timers,        \* pending setTimeout timers that run an event
  now,           \* Date.now()
  pauseAllPc,    \* "idle", or "waiting" while a pauseAll() call polls
  resumeAllPc,   \* "idle", or "awaiting" while a resumeAll() call is suspended
  resumeQueue,   \* ids a resumeAll() call in progress has still to resume
  armed,         \* history: per object, time spent armed in earlier armings
  removed,       \* history: ids removed by removeEvent and not added since
  last           \* history: the step just taken

vars == <<status, callbackMap, eventMap, keys, heap, timers, now,
          pauseAllPc, resumeAllPc, resumeQueue, armed, removed, last>>

Restrict(f, D) == [x \in D |-> f[x]]

EmptyMap == [x \in {} |-> 0]

Min(S) == CHOOSE x \in S : \A y \in S : x <= y

\* ------------------------------------------------------------ the state
\* The scheduler's mutable state as one value, so that the methods compose
\* the way the code calls them.  threw: the call raised; full: the model ran
\* out of object slots (such steps are not taken).
Cur ==
  [status |-> status, eventMap |-> eventMap, keys |-> keys, heap |-> heap,
   timers |-> timers, armed |-> armed, threw |-> FALSE, full |-> FALSE]

\* objects something still refers to: the table, a pending timer's closure,
\* a handler invocation in flight
Live(S) ==
  {S.eventMap[i] : i \in DOMAIN S.eventMap}
    \cup {t.ev : t \in S.timers}
    \cup {o \in DOMAIN S.heap : S.heap[o].status = "running"}

\* a fresh Timeout handle
NewHandle(S) ==
  Min((1..(2 * MaxObj + 2)) \ ({t.h : t \in S.timers}
                            \cup {S.heap[o].jobId : o \in Live(S)}))

\* const event: Event = {...}: allocate an object
NewEvent(S, rec, tracked) ==
  LET free == Obj \ Live(S) IN
  IF free = {} THEN [S EXCEPT !.full = TRUE]
  ELSE LET o == Min(free) IN
       [S EXCEPT !.heap = [x \in (DOMAIN @) \cup {o} |-> IF x = o THEN rec ELSE @[x]],
                 !.armed = [x \in (DOMAIN @) \cup {o} |->
                              IF x = o THEN (IF tracked THEN 0 ELSE -1) ELSE @[x]]]

NewRef(S) == Min(Obj \ Live(S))

\* ----------------------------------------------------------- the methods
\* mutant: removeEvent that does not clear the timer
removeEvent_KeepsTimer(S, id) ==
  IF id \notin DOMAIN S.eventMap THEN S
  ELSE [S EXCEPT !.eventMap = Restrict(@, DOMAIN @ \ {id}),
                 !.keys = SelectSeq(@, LAMBDA k : k # id)]

removeEvent(S, id) ==
  IF id \notin DOMAIN S.eventMap THEN S
  ELSE LET event == S.heap[S.eventMap[id]] IN
       [S EXCEPT !.timers = IF event.jobId # 0
                            THEN {t \in @ : t.h # event.jobId} ELSE @,
                 !.eventMap = Restrict(@, DOMAIN @ \ {id}),
                 !.keys = SelectSeq(@, LAMBDA k : k # id)]

\* mutant: scheduleEvent without the test of the global status
scheduleEvent_AlwaysArms(S, o, delay) ==
  LET id == S.heap[o].id
      S1 == IF id \in DOMAIN S.eventMap THEN removeEvent(S, id) ELSE S
      event == S1.heap[o]
      remainingTime == IF event.remainingTime <= 0 THEN event.duration
                       ELSE event.remainingTime
      timeToRun == IF delay = << >> THEN remainingTime ELSE delay[1]
      jobId == NewHandle(S1)
  IN [S1 EXCEPT !.heap[o] = [event EXCEPT !.remainingTime = remainingTime,
                                          !.status = "scheduled",
                                          !.jobId = jobId],
                !.timers = @ \cup {[h |-> jobId, ev |-> o,
                                    delay |-> timeToRun, at |-> now]},
                !.eventMap = [x \in (DOMAIN @) \cup {id} |-> IF x = id THEN o ELSE @[x]],
                !.keys = Append(@, id)]

\* delay is <<>> when the argument is omitted, <<d>> otherwise
scheduleEvent(S, o, delay) ==
  LET id == S.heap[o].id
      S1 == IF id \in DOMAIN S.eventMap THEN removeEvent(S, id) ELSE S
      event == S1.heap[o]
      remainingTime == IF event.remainingTime <= 0 THEN event.duration
                       ELSE event.remainingTime
      timeToRun == IF delay = << >> THEN remainingTime ELSE delay[1]
      jobId == NewHandle(S1)
      S2 == IF S1.status = "paused"
            THEN [S1 EXCEPT !.heap[o] = [event EXCEPT !.remainingTime = remainingTime,
                                                      !.status = "paused"]]
            ELSE [S1 EXCEPT !.heap[o] = [event EXCEPT !.remainingTime = remainingTime,
                                                      !.status = "scheduled",
                                                      !.jobId = jobId],
                            !.timers = @ \cup {[h |-> jobId, ev |-> o,
                                                delay |-> timeToRun, at |-> now]}]
  IN [S2 EXCEPT !.eventMap = [x \in (DOMAIN @) \cup {id} |-> IF x = id THEN o ELSE @[x]],
                !.keys = Append(@, id)]

\* mutant: addEvent that drops the event it overwrites before it looks the
\* handler up
addEvent_OverwritesFirst(S, id, lookupName, params, duration, autoRepeat) ==
  LET S0 == removeEvent(S, id) IN
  IF lookupName \notin callbackMap THEN [S0 EXCEPT !.threw = TRUE]
  ELSE LET event == [id |-> id, lookupName |-> lookupName, params |-> params,
                     status |-> IF S0.status = "paused" THEN "paused" ELSE "scheduled",
                     addedAtTime |-> now, remainingTime |-> duration,
                     duration |-> duration, autoRepeat |-> autoRepeat, jobId |-> 0]
           S1 == NewEvent(S0, event, TRUE)
       IN IF S1.full THEN S1 ELSE scheduleEvent(S1, NewRef(S0), << >>)

addEvent(S, id, lookupName, params, duration, autoRepeat) ==
  IF lookupName \notin callbackMap THEN [S EXCEPT !.threw = TRUE]
  ELSE LET event == [id |-> id, lookupName |-> lookupName, params |-> params,
                     status |-> IF S.status = "paused" THEN "paused" ELSE "scheduled",
                     addedAtTime |-> now, remainingTime |-> duration,
                     duration |-> duration, autoRepeat |-> autoRepeat, jobId |-> 0]
           S1 == NewEvent(S, event, TRUE)
       IN IF S1.full THEN S1 ELSE scheduleEvent(S1, NewRef(S), << >>)

\* history: the time the timer with handle h has been pending, added to
\* the armed time of object o (-1: not an object made by addEvent)
ArmedAfter(S, o, h) ==
  IF S.armed[o] < 0 THEN S.armed[o]
  ELSE LET ts == {t \in S.timers : t.h = h} IN
       IF ts = {} THEN S.armed[o]
       ELSE S.armed[o] + (now - (CHOOSE t \in ts : TRUE).at)

eventIsScheduled(S, id) ==
  IF id \in DOMAIN S.eventMap
  THEN LET event == S.heap[S.eventMap[id]] IN
       event.status = "scheduled" \/ event.status = "running" \/ event.status = "paused"
  ELSE FALSE

\* mutant: pauseEvent that forgets the elapsed time
pauseEvent_KeepsRemaining(S, id) ==
  IF id \notin DOMAIN S.eventMap THEN S
  ELSE LET o == S.eventMap[id]
           event == S.heap[o]
       IN IF event.status # "scheduled" THEN S
          ELSE IF event.jobId = 0 THEN S
          ELSE [S EXCEPT
                 !.timers = {t \in @ : t.h # event.jobId},
                 !.heap[o] = [event EXCEPT !.status = "paused", !.jobId = 0],
                 !.armed[o] = ArmedAfter(S, o, event.jobId)]

\* mutant: pauseEvent without the tests of the status and of the handle
pauseEvent_Unguarded(S, id) ==
  IF id \notin DOMAIN S.eventMap THEN S
  ELSE LET o == S.eventMap[id]
           event == S.heap[o]
       IN [S EXCEPT
             !.timers = {t \in @ : t.h # event.jobId},
             !.heap[o] = [event EXCEPT
                !.remainingTime = @ - (now - event.addedAtTime),
                !.status = "paused",
                !.jobId = 0],
             !.armed[o] = ArmedAfter(S, o, event.jobId)]

pauseEvent(S, id) ==
  IF id \notin DOMAIN S.eventMap THEN S
  ELSE LET o == S.eventMap[id]
           event == S.heap[o]
       IN IF event.status # "scheduled" THEN S
          ELSE IF event.jobId = 0 THEN S
          ELSE [S EXCEPT
                 !.timers = {t \in @ : t.h # event.jobId},
                 !.heap[o] = [event EXCEPT
                    !.remainingTime = @ - (now - event.addedAtTime),
                    !.status = "paused",
                    !.jobId = 0],
                 !.armed[o] = ArmedAfter(S, o, event.jobId)]

\* mutant: resumeEvent that does not stamp addedAtTime
resumeEvent_NoStamp(S, id) ==
  IF id \notin DOMAIN S.eventMap THEN S
  ELSE LET o == S.eventMap[id]
           event == S.heap[o]
       IN IF event.status # "paused" THEN S
          ELSE scheduleEvent([S EXCEPT !.heap[o] = [event EXCEPT !.status = "scheduled"]],
                             o, << event.remainingTime >>)

resumeEvent(S, id) ==
  IF id \notin DOMAIN S.eventMap THEN S
  ELSE LET o == S.eventMap[id]
           event == S.heap[o]
       IN IF event.status # "paused" THEN S
          ELSE scheduleEvent([S EXCEPT !.heap[o] = [event EXCEPT !.status = "scheduled",
                                                                  !.addedAtTime = now]],
                             o, << event.remainingTime >>)

\* runEvent up to the suspension at `await callback.execute(...)`
runEventStart(S, o) ==
  IF S.heap[o].lookupName \notin callbackMap THEN [S EXCEPT !.threw = TRUE]
  ELSE [S EXCEPT !.heap[o].status = "running"]

\* mutant: runEvent that leaves a finished non-repeating event in the table
runEventFinish_KeepsDone(S, o) ==
  LET event == S.heap[o]
      S1 == [S EXCEPT !.heap[o] = [event EXCEPT !.status = "done", !.jobId = 0]]
  IN IF event.autoRepeat
     THEN addEvent(S1, event.id, event.lookupName, event.params, event.duration, TRUE)
     ELSE S1

\* mutant: runEvent that removes the event whatever autoRepeat says
runEventFinish_NoRepeat(S, o) ==
  LET event == S.heap[o]
      S1 == [S EXCEPT !.heap[o] = [event EXCEPT !.status = "done", !.jobId = 0]]
  IN removeEvent(S1, event.id)

\* runEvent after the handler's promise has resolved
runEventFinish(S, o) ==
  LET event == S.heap[o]
      S1 == [S EXCEPT !.heap[o] = [event EXCEPT !.status = "done", !.jobId = 0]]
  IN IF event.autoRepeat
     THEN addEvent(S1, event.id, event.lookupName, event.params, event.duration, TRUE)
     ELSE removeEvent(S1, event.id)

\* mutant: executeImmediately that leaves the pending timer armed
executeImmediately_KeepsTimer(S, id) ==
  IF id \notin DOMAIN S.eventMap THEN S
  ELSE LET o == S.eventMap[id]
           event == S.heap[o]
       IN IF event.status # "scheduled" THEN S
          ELSE runEventStart(S, o)

executeImmediately(S, id) ==
  IF id \notin DOMAIN S.eventMap THEN S
  ELSE LET o == S.eventMap[id]
           event == S.heap[o]
       IN IF event.status # "scheduled" THEN S
          ELSE runEventStart(
                 [S EXCEPT !.timers = IF event.jobId # 0
                                      THEN {t \in @ : t.h # event.jobId} ELSE @,
                           !.heap[o].jobId = 0], o)

RECURSIVE pauseKeys(_, _)
pauseKeys(S, ks) ==
  IF ks = << >> THEN S ELSE pauseKeys(pauseEvent(S, Head(ks)), Tail(ks))

\* the condition of waitForIdle's loop
someRunning(S) ==
  \E id \in DOMAIN S.eventMap : S.heap[S.eventMap[id]].status = "running"

RECURSIVE removeKeys(_, _)
removeKeys(S, lst) ==
  IF lst = << >> THEN S ELSE removeKeys(removeEvent(S, Head(lst)), Tail(lst))

removeAllByType(S, type) ==
  removeKeys(S, SelectSeq(S.keys, LAMBDA id : S.heap[S.eventMap[id]].lookupName = type))

\* JSON.stringify of the table's records without jobId
saveEvents(S) ==
  [i \in 1..Len(S.keys) |->
     LET event == S.heap[S.eventMap[S.keys[i]]] IN
     [id |-> event.id, lookupName |-> event.lookupName, params |-> event.params,
      status |-> event.status, addedAtTime |-> event.addedAtTime,
      remainingTime |-> event.remainingTime, duration |-> event.duration,
      autoRepeat |-> event.autoRepeat]]

\* mutant: loadEvents that restores records of any status
loadOne_AnyStatus(S, eventData) ==
  LET event == [id |-> eventData.id, lookupName |-> eventData.lookupName,
                params |-> eventData.params, status |-> eventData.status,
                addedAtTime |-> eventData.addedAtTime,
                remainingTime |-> eventData.remainingTime,
                duration |-> eventData.duration,
                autoRepeat |-> eventData.autoRepeat, jobId |-> 0]
      S1 == NewEvent(S, event, FALSE)
  IN IF S.full \/ S1.full THEN [S EXCEPT !.full = TRUE]
     ELSE scheduleEvent(S1, NewRef(S), << event.remainingTime >>)

loadOne(S, eventData) ==
  LET event == [id |-> eventData.id, lookupName |-> eventData.lookupName,
                params |-> eventData.params, status |-> eventData.status,
                addedAtTime |-> eventData.addedAtTime,
                remainingTime |-> eventData.remainingTime,
                duration |-> eventData.duration,
                autoRepeat |-> eventData.autoRepeat, jobId |-> 0]
  IN IF event.status = "scheduled" \/ event.status = "paused"
     THEN LET S1 == NewEvent(S, event, FALSE) IN
          IF S.full \/ S1.full THEN [S EXCEPT !.full = TRUE]
          ELSE scheduleEvent(S1, NewRef(S), << event.remainingTime >>)
     ELSE S

RECURSIVE loadEvents(_, _)
loadEvents(S, events) ==
  IF events = << >> THEN S ELSE loadEvents(loadOne(S, Head(events)), Tail(events))

\* ---------------------------------------------------------------- steps
\* history: the step taken.  id, name: the call's arguments; pre: what the
\* table held under id when the call began; obj: the object a timer callback
\* or handler completion ran for (its reference before the step); threw: the
\* call raised; ret: a pending pauseAll() call returned in this step
Step(op, id, name, pre, obj, threw, ret) ==
  [op |-> op, id |-> id, name |-> name, pre |-> pre, obj |-> obj,
   threw |-> threw, ret |-> ret]

Pre(id) ==
  IF id \in DOMAIN eventMap THEN heap[eventMap[id]].status
  ELSE IF id \in removed THEN "removed" ELSE "absent"

\* References and Timeout handles are opaque: only their equality matters.
\* Canon renames them so that states differing by a renaming coincide: live
\* objects are numbered from 1 (those in the table first, by id), and a
\* handle takes the number of the object that holds it.  An object that has
\* left the table is never put back (scheduleEvent is only passed a new
\* object or the table's own); the rest of runEvent reads its id, lookupName,
\* params, duration and autoRepeat only, so its other fields are dead and
\* are zeroed.
IdIx(id) == CHOOSE i \in 1..Len(IdPool) : IdPool[i] = id

InMap(R, o) == \E i \in DOMAIN R.eventMap : R.eventMap[i] = o

Rank(R, L) ==
  LET key(o) == IdIx(R.heap[o].id) + (IF InMap(R, o) THEN 0 ELSE 10)
      before(x, o) == key(x) < key(o) \/ (key(x) = key(o) /\ x < o)
  IN [o \in L |-> 1 + Cardinality({x \in L : before(x, o)})]

Canon(R, L, rank) ==
  LET inv == [n \in 1..Cardinality(L) |-> CHOOSE o \in L : rank[o] = n]
      newH(h) == IF h = 0 THEN 0
                 ELSE IF \E o \in L : R.heap[o].jobId = h
                      THEN rank[CHOOSE o \in L : R.heap[o].jobId = h]
                      ELSE MaxObj + h
  IN [R EXCEPT
        !.heap = [n \in 1..Cardinality(L) |->
                    IF InMap(R, inv[n])
                    THEN [R.heap[inv[n]] EXCEPT !.jobId = newH(@)]
                    ELSE [R.heap[inv[n]] EXCEPT !.jobId = 0, !.addedAtTime = 0,
                                                !.remainingTime = 0]],
        !.armed = [n \in 1..Cardinality(L) |->
                     IF InMap(R, inv[n]) THEN R.armed[inv[n]] ELSE -1],
        !.eventMap = [i \in DOMAIN R.eventMap |-> rank[R.eventMap[i]]],
        !.timers = {[h |-> newH(t.h), ev |-> rank[t.ev], delay |-> t.delay,
                     at |-> t.at] : t \in R.timers}]

\* store the outcome R0 of a stretch of code; unreachable objects are dropped
Commit(R0) ==
  /\ ~R0.full
  /\ \E L \in {Live(R0)} :
     /\ Cardinality(L) < MaxObj
     /\ \E rank \in {Rank(R0, L)} :
        \E R \in {Canon(R0, L, rank)} :
          /\ status' = R.status
          /\ eventMap' = R.eventMap
          /\ keys' = R.keys
          /\ heap' = R.heap
          /\ armed' = R.armed
          /\ timers' = R.timers

Init ==
  /\ status = "paused"
  /\ callbackMap = {}
  /\ eventMap = EmptyMap
  /\ keys = << >>
  /\ heap = << >>
  /\ timers = {}
  /\ now = 0
  /\ pauseAllPc = "idle"
  /\ resumeAllPc = "idle"
  /\ resumeQueue = << >>
  /\ armed = << >>
  /\ removed = {}
  /\ last = Step("new", "", "", "", 0, FALSE, FALSE)

RegisterCallback(lookupName) ==
  /\ callbackMap' = callbackMap \cup {lookupName}
  /\ last' = Step("registerCallback", "", lookupName, "", 0, lookupName \in callbackMap, FALSE)
  /\ UNCHANGED <<status, eventMap, keys, heap, timers, now, pauseAllPc,
                 resumeAllPc, resumeQueue, armed, removed>>

AddEvent(id, tp) ==
  \E R \in {addEvent(Cur, id, tp.lookupName, tp.params, tp.duration, tp.autoRepeat)} :
  /\ Commit(R)
  /\ removed' = removed \ {id}
  /\ last' = Step("addEvent", id, tp.lookupName, Pre(id), 0, R.threw, FALSE)
  /\ UNCHANGED <<callbackMap, now, pauseAllPc, resumeAllPc, resumeQueue>>

RemoveEvent(id) ==
  \E R \in {removeEvent(Cur, id)} :
  /\ Commit(R)
  /\ removed' = removed \cup {id}
  /\ last' = Step("removeEvent", id, "", Pre(id), 0, FALSE, FALSE)
  /\ UNCHANGED <<callbackMap, now, pauseAllPc, resumeAllPc, resumeQueue>>

PauseEvent(id) ==
  \E R \in {pauseEvent(Cur, id)} :
  /\ Commit(R)
  /\ last' = Step("pauseEvent", id, "", Pre(id), 0, FALSE, FALSE)
  /\ UNCHANGED <<callbackMap, now, pauseAllPc, resumeAllPc, resumeQueue, removed>>

ResumeEvent(id) ==
  \E R \in {resumeEvent(Cur, id)} :
  /\ Commit(R)
  /\ last' = Step("resumeEvent", id, "", Pre(id), 0, FALSE, FALSE)
  /\ UNCHANGED <<callbackMap, now, pauseAllPc, resumeAllPc, resumeQueue, removed>>

ExecuteImmediately(id) ==
  \E R \in {executeImmediately(Cur, id)} :
  /\ Commit(R)
  /\ last' = Step("executeImmediately", id, "", Pre(id),
                  IF id \in DOMAIN eventMap THEN eventMap[id] ELSE 0, R.threw, FALSE)
  /\ UNCHANGED <<callbackMap, now, pauseAllPc, resumeAllPc, resumeQueue, removed>>

RemoveAllByType(type) ==
  \E R \in {removeAllByType(Cur, type)} :
  /\ Commit(R)
  /\ last' = Step("removeAllByType", "", type, "", 0, FALSE, FALSE)
  /\ UNCHANGED <<callbackMap, now, pauseAllPc, resumeAllPc, resumeQueue, removed>>

\* pauseAll() up to the first `await` inside waitForIdle; it returns in this
\* step when the loop condition is false at once
PauseAll ==
  \E R \in {pauseKeys(Cur, keys)} :
  /\ pauseAllPc = "idle"
  /\ Commit(R)
  /\ pauseAllPc' = IF someRunning(R) THEN "waiting" ELSE "idle"
  /\ last' = Step("pauseAll", "", "", "", 0, FALSE, ~someRunning(R))
  /\ UNCHANGED <<callbackMap, now, resumeAllPc, resumeQueue, removed>>

\* the poll timer of waitForIdle fires: one more test of the loop condition
WaitForIdlePoll ==
  /\ pauseAllPc = "waiting"
  /\ resumeAllPc = "idle"
  /\ pauseAllPc' = IF someRunning(Cur) THEN "waiting" ELSE "idle"
  /\ last' = Step("waitForIdle", "", "", "", 0, FALSE, ~someRunning(Cur))
  /\ UNCHANGED <<status, callbackMap, eventMap, keys, heap, timers, now,
                 resumeAllPc, resumeQueue, armed, removed>>

\* resumeAll() up to the first `await this.resumeEvent(id)`
ResumeAll ==
  \E R \in {IF keys = << >> THEN [Cur EXCEPT !.status = "running"]
            ELSE resumeEvent([Cur EXCEPT !.status = "running"], Head(keys))} :
  /\ resumeAllPc = "idle"
  /\ Commit(R)
  /\ resumeAllPc' = IF keys = << >> THEN "idle" ELSE "awaiting"
  /\ resumeQueue' = IF keys = << >> THEN << >> ELSE Tail(keys)
  /\ last' = Step("resumeAll", "", "", "", 0, FALSE, FALSE)
  /\ UNCHANGED <<callbackMap, now, pauseAllPc, removed>>

\* resumeAll() continues after an await: the next iteration, or the loop ends
ResumeAllStep ==
  \E R \in {IF resumeQueue = << >> THEN Cur ELSE resumeEvent(Cur, Head(resumeQueue))} :
  /\ resumeAllPc = "awaiting"
  /\ Commit(R)
  /\ resumeAllPc' = IF resumeQueue = << >> THEN "idle" ELSE "awaiting"
  /\ resumeQueue' = IF resumeQueue = << >> THEN << >> ELSE Tail(resumeQueue)
  /\ last' = Step("resumeAllStep", "", "", "", 0, FALSE, FALSE)
  /\ UNCHANGED <<callbackMap, now, pauseAllPc, removed>>

\* a pending timer runs its callback: runEvent(event) up to the handler's
\* suspension.  Timer callbacks are macrotasks: none runs while resumeAll is
\* suspended on an already settled promise.
TimerFire(t) ==
  \E R \in {runEventStart([Cur EXCEPT !.timers = @ \ {t}], t.ev)} :
  /\ resumeAllPc = "idle"
  /\ now >= t.at + t.delay
  /\ Commit(R)
  /\ last' = Step("timer", heap[t.ev].id, "", "", t.ev, R.threw, FALSE)
  /\ UNCHANGED <<callbackMap, now, pauseAllPc, resumeAllPc, resumeQueue, removed>>

\* the handler's promise resolves: the rest of runEvent
HandlerDone(o) ==
  /\ o \in DOMAIN heap
  /\ heap[o].status = "running"
  /\ \E R \in {runEventFinish(Cur, o)} :
     /\ Commit(R)
     /\ last' = Step("runEventFinish", heap[o].id, "", "", o, FALSE, FALSE)
  /\ UNCHANGED <<callbackMap, now, pauseAllPc, resumeAllPc, resumeQueue, removed>>

\* saveEvents() only reads the table
SaveEvents ==
  /\ last' = Step("saveEvents", "", "", "", 0, FALSE, FALSE)
  /\ UNCHANGED <<status, callbackMap, eventMap, keys, heap, timers, now,
                 pauseAllPc, resumeAllPc, resumeQueue, armed, removed>>

\* loadEvents(data): of a persisted string (src is its file name), or of the
\* string saveEvents() returns in the same stretch of code (src = "saved")
LoadEvents(src, data) ==
  \E R \in {loadEvents(Cur, data)} :
  /\ Commit(R)
  /\ removed' = removed \ {data[i].id : i \in DOMAIN data}
  /\ last' = Step("loadEvents", "", src, "", 0, FALSE, FALSE)
  /\ UNCHANGED <<callbackMap, now, pauseAllPc, resumeAllPc, resumeQueue>>

Tick ==
  /\ now < MaxTime
  /\ now' = now + 1
  /\ last' = Step("tick", "", "", "", 0, FALSE, FALSE)
  /\ UNCHANGED <<status, callbackMap, eventMap, keys, heap, timers,
                 pauseAllPc, resumeAllPc, resumeQueue, armed, removed>>

Next ==
  \/ \E n \in Names : RegisterCallback(n)
  \/ \E id \in Ids, tp \in Templates : AddEvent(id, tp)
  \/ \E id \in Ids : RemoveEvent(id)
  \/ \E id \in Ids : PauseEvent(id)
  \/ \E id \in Ids : ResumeEvent(id)
  \/ \E id \in Ids : ExecuteImmediately(id)
  \/ \E type \in Types : RemoveAllByType(type)
  \/ PauseAll
  \/ WaitForIdlePoll
  \/ ResumeAll
  \/ ResumeAllStep
  \/ \E t \in timers : TimerFire(t)
  \/ \E o \in Obj : HandlerDone(o)
  \/ SaveEvents
  \/ \E file \in DOMAIN Persisted : LoadEvents(file, Persisted[file])
  \/ LoadEvents("saved", saveEvents(Cur))
  \/ Tick

Spec == Init /\ [][Next]_vars

\* the conditions under which the steps of the host are enabled
Running(o) == o \in DOMAIN heap /\ heap[o].status = "running"

TimerDue == resumeAllPc = "idle" /\ \E t \in timers : now >= t.at + t.delay

\* What the host guarantees: time passes; the poll timer of waitForIdle
\* fires and a due timer's callback is run (strongly: resumeAll() may suspend
\* and resume between two callbacks, but each of its suspensions ends); a
\* continuation behind an `await` is run; and, as the claims about progress
\* assume, every handler's promise settles.  The last three are WF and SF
\* written out, with the enabling condition of the step stated as a state
\* predicate.
Fairness ==
  /\ WF_vars(Tick)
  /\ SF_vars(WaitForIdlePoll)
  /\ []<>(resumeAllPc # "awaiting") \/ []<><<ResumeAllStep>>_vars
  /\ <>[](~TimerDue) \/ []<><<\E t \in timers : TimerFire(t)>>_vars
  /\ \A o \in Obj : []<>(~Running(o)) \/ []<><<HandlerDone(o)>>_vars

FairSpec == Spec /\ Fairness

\* ------------------------------------------------------------ properties
InTable(id) == id \in DOMAIN eventMap

Ev(id) == heap[eventMap[id]]

\* the scheduler's own state (the history variables left out)
sched == <<status, callbackMap, eventMap, keys, heap, timers>>

\* the timers pending for the object stored under id
TimersOf(id) == {t \in timers : t.ev = eventMap[id]}

\* the same after the step
EvAfter(id) == heap'[eventMap'[id]]

TimersAfter(id) == {t \in timers' : t.ev = eventMap'[id]}

\* C1: as long as resumeAll() has not been called (the global status is still
\* "paused"), no timer is pending, no handler has been invoked or is running,
\* and every event object is paused.
C1_NothingFiresBeforeResumeAll ==
  status = "paused" =>
    /\ timers = {}
    /\ last.op # "timer"
    /\ \A o \in DOMAIN heap : heap[o].status = "paused"

\* a record saved as "scheduled" has been loaded before any resumeAll()
C1_Witness ==
  /\ status = "paused"
  /\ last.op = "loadEvents"
  /\ last.name = "disk"
  /\ InTable("e1")
  /\ Ev("e1").status = "paused"

\* C2: an event made by addEvent whose timer is pending, and that has so far
\* been armed for less than its duration D over its earlier armings, has
\* its timer set for what is left: armed time so far + delay = D.
C2_PauseResumeConservation ==
  \A t \in timers :
    (armed[t.ev] >= 0 /\ armed[t.ev] < heap[t.ev].duration)
      => armed[t.ev] + t.delay = heap[t.ev].duration

\* resumeEvent has re-armed an event that was paused part-way
C2_Witness ==
  /\ last.op = "resumeEvent"
  /\ last.pre = "paused"
  /\ \E t \in timers :
       /\ armed[t.ev] > 0
       /\ armed[t.ev] < heap[t.ev].duration
       /\ t.delay = heap[t.ev].duration - armed[t.ev]

\* the step is loadEvents(saveEvents()) on this scheduler
RoundTripStep == last'.op = "loadEvents" /\ last'.name = "saved"

\* C3 as claimed: after loadEvents(saveEvents()), every record saved as
\* scheduled or paused is in the table with the saved status and the saved
\* remainingTime, and no record saved with another status has been restored.
C3_RoundTripPreservesStatus ==
  [][RoundTripStep =>
       \A i \in DOMAIN saveEvents(Cur) :
         LET r == saveEvents(Cur)[i] IN
         IF r.status \in {"scheduled", "paused"}
         THEN /\ r.id \in DOMAIN eventMap'
              /\ heap'[eventMap'[r.id]].status = r.status
              /\ heap'[eventMap'[r.id]].remainingTime = r.remainingTime
         ELSE r.id \in DOMAIN eventMap'
                => heap'[eventMap'[r.id]].status \notin {"scheduled", "paused"}]_vars

\* what loadEvents makes of the record r when the global status is st
Restored(r, e, st) ==
  /\ e.id = r.id
  /\ e.lookupName = r.lookupName
  /\ e.params = r.params
  /\ e.duration = r.duration
  /\ e.autoRepeat = r.autoRepeat
  /\ e.addedAtTime = r.addedAtTime
  /\ e.status = IF st = "paused" THEN "paused" ELSE "scheduled"
  /\ e.remainingTime = IF r.remainingTime > 0 THEN r.remainingTime ELSE r.duration

\* C3 amended: after loadEvents of a string (the one saveEvents() has just
\* returned, or a persisted one), every record saved as scheduled or paused
\* is in the table with status paused if the global status is paused and
\* scheduled otherwise, and with the saved remainingTime if that is > 0 and
\* its duration otherwise; a record saved with another status is not
\* restored: what the table holds under its id is left as it was.
C3_RoundTripByGlobalStatus ==
  [][\A src \in DOMAIN Persisted \cup {"saved"} :
       (last'.op = "loadEvents" /\ last'.name = src) =>
         LET data == IF src = "saved" THEN saveEvents(Cur) ELSE Persisted[src] IN
         \A i \in DOMAIN data :
           LET r == data[i] IN
           IF r.status \in {"scheduled", "paused"}
           THEN /\ r.id \in DOMAIN eventMap'
                /\ Restored(r, heap'[eventMap'[r.id]], status)
           ELSE /\ (r.id \in DOMAIN eventMap') = (r.id \in DOMAIN eventMap)
                /\ r.id \in DOMAIN eventMap
                     => heap'[eventMap'[r.id]].status = heap[eventMap[r.id]].status]_vars

\* a round trip in an active scheduler has re-armed an event
C3_Witness ==
  /\ last.op = "loadEvents"
  /\ last.name = "saved"
  /\ status = "running"
  /\ \E id \in DOMAIN eventMap : Ev(id).status = "scheduled" /\ TimersOf(id) # {}

\* C4 as claimed: when a pauseAll() call returns no handler invocation is
\* unfinished: no event object, in the table or not, has status running.
C4_PauseAllReturnsIdle ==
  last.ret => \A o \in DOMAIN heap : heap[o].status # "running"

\* C5 as claimed: an id removed by removeEvent stays absent from the table
\* until the client calls addEvent or loadEvents with it.
C5_RemovalIsFinal ==
  \A id \in removed : id \notin DOMAIN eventMap

\* C6: when the handler of an autoRepeat event completes, the table holds
\* under its id an event with the same lookupName, params and duration,
\* autoRepeat set, status scheduled, remainingTime = duration, and a timer
\* armed at that moment for the full duration.
C6_AutoRepeatReArms ==
  [][(last'.op = "runEventFinish" /\ heap[last'.obj].autoRepeat) =>
       LET old == heap[last'.obj] IN
       /\ old.id \in DOMAIN eventMap'
       /\ LET e == heap'[eventMap'[old.id]] IN
          /\ e.lookupName = old.lookupName
          /\ e.params = old.params
          /\ e.duration = old.duration
          /\ e.autoRepeat
          /\ e.status = "scheduled"
          /\ e.remainingTime = old.duration
          /\ e.addedAtTime = now
          /\ \E t \in timers' :
               /\ t.ev = eventMap'[old.id]
               /\ t.h = e.jobId
               /\ t.delay = old.duration
               /\ t.at = now]_vars

\* the handler of an autoRepeat event has completed and the event is armed
C6_Witness ==
  /\ last.op = "runEventFinish"
  /\ InTable(last.id)
  /\ Ev(last.id).autoRepeat
  /\ Ev(last.id).status = "scheduled"
  /\ Ev(last.id).addedAtTime = now
  /\ now > 0

\* C7 as claimed: no two handler invocations for the same id are in flight.
C7_OneInvocationPerId ==
  \A o1, o2 \in DOMAIN heap :
    (heap[o1].status = "running" /\ heap[o2].status = "running"
       /\ heap[o1].id = heap[o2].id) => o1 = o2

\* C8: addEvent with a lookupName that has no handler registered raises and
\* leaves the table, the event records and the timers as they were.
C8_UnknownHandlerRejected ==
  [][(last'.op = "addEvent" /\ last'.name \notin callbackMap) =>
       /\ last'.threw
       /\ UNCHANGED sched]_vars

\* addEvent has raised while the id it names holds an armed event
C8_Witness ==
  /\ last.op = "addEvent"
  /\ last.threw
  /\ last.pre = "scheduled"
  /\ InTable(last.id)
  /\ TimersOf(last.id) # {}

\* C9: removeEvent leaves the id absent and never raises, and removeEvent
\* of an absent id changes nothing; pauseEvent never raises, and pauseEvent
\* of a paused event changes nothing.
C9_Idempotent ==
  [][/\ last'.op = "removeEvent" => last'.id \notin DOMAIN eventMap'
     /\ (last'.op = "removeEvent" /\ last'.pre \in {"removed", "absent"})
          => (~last'.threw /\ UNCHANGED sched)
     /\ last'.op = "pauseEvent" => ~last'.threw
     /\ (last'.op = "pauseEvent" /\ last'.pre = "paused")
          => UNCHANGED sched]_vars

\* pauseEvent has been called on an event that was paused by an earlier
\* pauseEvent, some time after it
C9_Witness ==
  /\ last.op = "pauseEvent"
  /\ last.pre = "paused"
  /\ status = "running"
  /\ InTable(last.id)
  /\ armed[eventMap[last.id]] > 0
  /\ now > Ev(last.id).addedAtTime + armed[eventMap[last.id]]

\* removeEvent has been called on an id that removeEvent had removed
C9_WitnessRemove ==
  /\ last.op = "removeEvent"
  /\ last.pre = "removed"

\* C10 as claimed: resumeEvent of a paused event leaves it scheduled, stamped
\* with the current time and armed for its stored remainingTime; of any
\* other event, or of none, it changes nothing.
C10_ResumeArms ==
  [][last'.op = "resumeEvent" =>
       IF last'.pre = "paused"
       THEN /\ EvAfter(last'.id).status = "scheduled"
            /\ EvAfter(last'.id).addedAtTime = now
            /\ \E t \in TimersAfter(last'.id) :
                 /\ t.h = EvAfter(last'.id).jobId
                 /\ t.delay = Ev(last'.id).remainingTime
                 /\ t.at = now
       ELSE UNCHANGED sched]_vars

\* C10 amended: in a scheduler whose global status is not paused, resumeEvent
\* of a paused event leaves it scheduled, stamped with the current time and
\* armed for its stored remainingTime; while the global status is paused the
\* event stays paused with no timer (only addedAtTime is stamped, and a
\* remainingTime <= 0 reset to the duration); of any other event, or of
\* none, it changes nothing.
C10_ResumeArmsUnlessGloballyPaused ==
  [][last'.op = "resumeEvent" =>
       IF last'.pre = "paused"
       THEN /\ EvAfter(last'.id).addedAtTime = now
            /\ IF status = "paused"
               THEN /\ EvAfter(last'.id).status = "paused"
                    /\ TimersAfter(last'.id) = {}
               ELSE /\ EvAfter(last'.id).status = "scheduled"
                    /\ \E t \in TimersAfter(last'.id) :
                         /\ t.h = EvAfter(last'.id).jobId
                         /\ t.delay = Ev(last'.id).remainingTime
                         /\ t.at = now
       ELSE UNCHANGED sched]_vars

\* resumeEvent has re-armed a paused event in an active scheduler
C10_Witness ==
  /\ last.op = "resumeEvent"
  /\ last.pre = "paused"
  /\ status = "running"
  /\ Ev(last.id).status = "scheduled"
  /\ TimersOf(last.id) # {}
Owed(id) ==
  /\ status # "paused"
  /\ InTable(id)
  /\ Ev(id).status = "scheduled"
  /\ armed[eventMap[id]] >= 0
  /\ \E t \in TimersOf(id) : t.at + t.delay <= MaxTime

\* the step just taken began a handler invocation for id
Invoked(id) ==
  /\ last.id = id
  /\ ~last.threw
  /\ \/ last.op = "timer"
     \/ last.op = "executeImmediately" /\ last.pre = "scheduled"

\* the step just taken is a client call that pauses, removes or replaces
\* the event stored under id
Interfered(id) ==
  \/ last.op \in {"pauseEvent", "removeEvent"} /\ last.id = id
  \/ last.op = "addEvent" /\ last.id = id /\ ~last.threw
  \/ last.op \in {"pauseAll", "removeAllByType"}
  \/ last.op = "loadEvents" /\ last.name # "empty"

\* C12 as claimed, in the form a finite run refutes: in an active scheduler
\* an event added with addEvent and armed stays armed in the table until its
\* handler is invoked, unless the client pauses, removes or replaces it: no
\* other step takes it out of the table or disarms it (once it has, no timer
\* is left to invoke the handler).
C12_AddedEventKeptUntilRun ==
  [][\A id \in Ids :
       (Owed(id) /\ ~Owed(id)') => (Invoked(id)' \/ Interfered(id)')]_vars
\* C13 as claimed: when a pauseAll() call returns no event in the table has
\* an armed timer, and as long as neither resumeEvent nor resumeAll is called
\* (nor an earlier resumeAll() call continues) the next step arms no timer
\* for an event in the table and starts no handler invocation.
C13_PauseAllPausesScheduler ==
  /\ [](last.ret => \A id \in DOMAIN eventMap : TimersOf(id) = {})
  /\ [][(last.ret /\ last'.op \notin {"resumeEvent", "resumeAll", "resumeAllStep"}) =>
          /\ \A id \in DOMAIN eventMap' : TimersAfter(id) = {}
          /\ \A id \in Ids : ~Invoked(id)']_vars
\* C14 as claimed: every pending timer of an event of duration > 0 was armed
\* with a delay > 0 that equals the event's remainingTime (the renormalised
\* one: remainingTime does not change while the timer is pending).
C14_RearmRule ==
  \A id \in DOMAIN eventMap :
    \A t \in TimersOf(id) :
      Ev(id).duration > 0 => (t.delay > 0 /\ t.delay = Ev(id).remainingTime)
\* C15 as claimed: an event in the table holds a timer handle exactly when its
\* status is scheduled and the global status is not paused.
C15_HandleIffScheduled ==
  \A id \in DOMAIN eventMap :
    (Ev(id).jobId # 0) <=> (Ev(id).status = "scheduled" /\ status # "paused")
\* C16 as claimed: for every armed event of the table, addedAtTime is the
\* time its pending timer was armed, the timer is due at addedAtTime +
\* remainingTime, and remainingTime <= duration.
C16_DueAtAddedPlusRemaining ==
  \A id \in DOMAIN eventMap :
    \A t \in TimersOf(id) :
      /\ Ev(id).addedAtTime = t.at
      /\ t.at + t.delay = Ev(id).addedAtTime + Ev(id).remainingTime
      /\ Ev(id).remainingTime <= Ev(id).duration
\* C17 as claimed: every event in the table has a lookupName for which a
\* handler is registered.
C17_TableNamesRegistered ==
  \A id \in DOMAIN eventMap : Ev(id).lookupName \in callbackMap
\* C18: every pending timer belongs to the record the table holds under the
\* record's id, that record has status scheduled and holds the timer's
\* handle, no two timers are pending for one id, and a timer callback only
\* ever runs for such a record: a timer cancelled by removeEvent, pauseEvent,
\* executeImmediately or a replacement invokes no handler.
C18_TimersBelongToTable ==
  /\ [](/\ \A t \in timers :
             /\ heap[t.ev].id \in DOMAIN eventMap
             /\ eventMap[heap[t.ev].id] = t.ev
             /\ heap[t.ev].status = "scheduled"
             /\ heap[t.ev].jobId = t.h
        /\ \A t1, t2 \in timers : heap[t1.ev].id = heap[t2.ev].id => t1 = t2)
  /\ [][last'.op = "timer" =>
          /\ last'.id \in DOMAIN eventMap
          /\ eventMap[last'.id] = last'.obj
          /\ heap[last'.obj].status = "scheduled"
          /\ \E t \in timers : t.ev = last'.obj /\ t.h = heap[last'.obj].jobId]_vars

\* addEvent has replaced an event whose timer had been pending for a while:
\* the only timer left is the new record's
C18_Witness ==
  /\ last.op = "addEvent"
  /\ last.pre = "scheduled"
  /\ ~last.threw
  /\ status = "running"
  /\ now > 0
  /\ InTable(last.id)
  /\ \A t \in timers : t.ev = eventMap[last.id] /\ t.at = now
  /\ timers # {}
\* C19: between operations every record in the table has status scheduled,
\* running or paused, so eventIsScheduled(id) is true exactly when id is a
\* key of the table.
C19_TableStatusesAlive ==
  /\ \A id \in DOMAIN eventMap : Ev(id).status \in {"scheduled", "running", "paused"}
  /\ \A id \in Ids : eventIsScheduled(Cur, id) <=> id \in DOMAIN eventMap

\* the handler of a non-repeating event has completed (its record was done
\* for a moment inside runEvent): the id is gone and eventIsScheduled is false
C19_Witness ==
  /\ last.op = "runEventFinish"
  /\ last.id \notin DOMAIN eventMap
  /\ ~eventIsScheduled(Cur, last.id)
  /\ last.id \notin removed
\* from some point on the only steps are the host's (timer callbacks, the
\* idle poll, handler completions, time) and calls of executeImmediately
OnlyRunsInTheEnd ==
  <>[](last.op \in {"timer", "waitForIdle", "runEventFinish", "tick",
                    "executeImmediately"})

\* C20 as claimed: every pauseAll() call that has begun to wait returns, when
\* timers fire, the idle poll runs and every handler invocation completes
\* (stated for the runs in which, from some point on, the client does
\* nothing but force events to run).
C20_PauseAllReturns ==
  OnlyRunsInTheEnd => ((pauseAllPc = "waiting") ~> (pauseAllPc = "idle"))
====
